---- MODULE Spec2Model ----
(***************************************************************************)
(* A model of the document scanner's image pipeline (src/processing.py):   *)
(* find_document_corners, fix_perspective, clean_up_image and the          *)
(* orchestrator process_image.                                             *)
(*                                                                         *)
(* Rasters are abstract: an ndarray is its shape, its dtype, the chain of  *)
(* library operations that produced its samples (ops), the quadrilateral   *)
(* it was warped from (quad) and the contours an edge detector finds in    *)
(* the raster it was decoded from (contours).  Geometry is exact integer   *)
(* arithmetic on a small pixel grid.                                       *)
(***************************************************************************)
EXTENDS Integers, Sequences, FiniteSets, TLC

(* ------------------------------ bounds -------------------------------- *)

\* corner coordinates are GridStep * (0..GridN)
GridN == 2

GridStep == 30

\* longest contour list findContours returns in the model
MaxContours == 2

\* how many contours a frame handed to find_document_corners on its own holds
\* at most: one more than the detector looks at
MaxSceneLen == 7

(* ------------------------- program constants -------------------------- *)

\* processing.py:52  max_width < 50 or max_height < 50
MinDimension == 50

\* processing.py:12  minArea = ImageArea * 0.1
AreaDivisor == 10

\* processing.py:25  peri < 100
MinPerimeter == 100

\* processing.py:18  [:6]
MaxCandidates == 6

(* ------------------------------ helpers ------------------------------- *)

Range(s) == {s[i] : i \in 1..Len(s)}

Max(a, b) == IF a >= b THEN a ELSE b

Coords == {GridStep * i : i \in 0..GridN}

Points == {<<x, y>> : x \in Coords, y \in Coords}

P(i, j) == <<GridStep * i, GridStep * j>>

\* the largest squared distance between two grid points
MaxDist2 == 2 * (GridStep * GridN) * (GridStep * GridN)

\* int(np.sqrt(d2)): the square root truncated toward zero
IntSqrt == [d2 \in 0..MaxDist2 |->
              CHOOSE r \in 0..(2 * GridStep * GridN) :
                  r * r <= d2 /\ (r + 1) * (r + 1) > d2]

\* int(sqrt((a[0]-b[0])**2 + (a[1]-b[1])**2))
EdgeLen(a, b) ==
    IntSqrt[(a[1] - b[1]) * (a[1] - b[1]) + (a[2] - b[2]) * (a[2] - b[2])]

(* ------------------------------ rasters ------------------------------- *)

\* Python's None where an ndarray is expected
NoArr == [shape |-> <<>>, dtype |-> "none", ops |-> <<>>, quad |-> <<>>,
          contours |-> <<>>]

\* Python's None where a PIL image is expected
NoPIL == [mode |-> "none", size |-> <<>>, ops |-> <<>>, quad |-> <<>>,
          contours |-> <<>>]

Ok(v) == [exc |-> "none", val |-> v]

Raise(e) == [exc |-> e, val |-> NoArr]

\* np.array(image): an RGB image is (h, w, 3), a grayscale ("L") image (h, w)
np_array(image) ==
    [shape    |-> IF image.mode = "RGB"
                  THEN <<image.size[2], image.size[1], 3>>
                  ELSE <<image.size[2], image.size[1]>>,
     dtype    |-> "uint8",
     ops      |-> image.ops,
     quad     |-> image.quad,
     contours |-> image.contours]

\* cv2.cvtColor(a, code) for COLOR_RGB2BGR and COLOR_BGR2GRAY: both need a
\* 3- or 4-channel input and raise cv2.error on anything else
cvtColor(a, code) ==
    IF Len(a.shape) = 3 /\ a.shape[3] \in {3, 4}
    THEN Ok([a EXCEPT !.shape = IF code = "RGB2BGR"
                                 THEN <<a.shape[1], a.shape[2], 3>>
                                 ELSE <<a.shape[1], a.shape[2]>>,
                      !.ops = Append(a.ops, code)])
    ELSE Raise("cv2.error")

\* Image.fromarray(a): a 2-D uint8 array is mode "L", (h, w, 3) is "RGB"
fromarray(a) ==
    [mode     |-> IF Len(a.shape) = 2 /\ a.dtype = "uint8" THEN "L"
                  ELSE IF Len(a.shape) = 3 /\ a.dtype = "uint8" THEN "RGB"
                  ELSE "other",
     size     |-> <<a.shape[2], a.shape[1]>>,
     ops      |-> a.ops,
     quad     |-> a.quad,
     contours |-> a.contours]

(* ------------------------ find_document_corners ----------------------- *)

\* Insert c into a list sorted by area, descending, after every entry of
\* the same area: sorted(..., reverse=True) is stable
RECURSIVE InsertByArea(_, _)
InsertByArea(s, c) ==
    IF s = <<>> THEN <<c>>
    ELSE IF Head(s).area >= c.area THEN <<Head(s)>> \o InsertByArea(Tail(s), c)
    ELSE <<c>> \o s

RECURSIVE SortByArea(_)
SortByArea(s) ==
    IF s = <<>> THEN <<>>
    ELSE InsertByArea(SortByArea(SubSeq(s, 1, Len(s) - 1)), s[Len(s)])

\* the sort of line 18 without its [:6]
Candidates_NoCap(contours) == SortByArea(contours)

\* sorted(contours, key=cv2.contourArea, reverse=True)[:6]
Candidates(contours) ==
    LET s == SortByArea(contours)
    IN  SubSeq(s, 1, IF Len(s) < MaxCandidates THEN Len(s) ELSE MaxCandidates)

\* the loop body's test: not skipped by either continue, and 4 vertices
Qualifies(c, height, width) ==
    /\ ~(c.area * AreaDivisor < height * width)
    /\ ~(c.peri < MinPerimeter)
    /\ Len(c.approx) = 4

\* fault: a library call of the stage raises (cv2.error); exc/val is the
\* exception or the value returned, val = <<>> being None
find_document_corners(img, fault) ==
    IF cvtColor(img, "BGR2GRAY").exc # "none" THEN [exc |-> "cv2.error", val |-> <<>>]
    ELSE IF fault THEN [exc |-> "cv2.error", val |-> <<>>]
    ELSE LET cs   == Candidates(img.contours)
             hits == {i \in 1..Len(cs) : Qualifies(cs[i], img.shape[1], img.shape[2])}
         IN  IF hits = {} THEN [exc |-> "none", val |-> <<>>]
             ELSE [exc |-> "none",
                   val |-> cs[CHOOSE i \in hits : \A j \in hits : i <= j].approx]

(* --------------------------- fix_perspective -------------------------- *)

\* np.argmin(f): the first index holding the minimum
ArgMin(f) ==
    CHOOSE i \in 1..Len(f) :
        /\ \A j \in 1..Len(f) : f[i] <= f[j]
        /\ \A j \in 1..(i - 1) : f[j] > f[i]

\* np.argmax(f): the first index holding the maximum
ArgMax(f) ==
    CHOOSE i \in 1..Len(f) :
        /\ \A j \in 1..Len(f) : f[i] >= f[j]
        /\ \A j \in 1..(i - 1) : f[j] < f[i]

\* corners.sum(axis=1)
corner_sums(corners) == [i \in 1..Len(corners) |-> corners[i][1] + corners[i][2]]

\* the differences taken the other way round, x - y
corner_diffs_XminusY(corners) ==
    [i \in 1..Len(corners) |-> corners[i][1] - corners[i][2]]

\* np.diff(corners, axis=1): column 1 minus column 0, that is y - x
corner_diffs(corners) == [i \in 1..Len(corners) |-> corners[i][2] - corners[i][1]]

\* (top_left, top_right, bottom_right, bottom_left)
ordered_corners(corners) ==
    << corners[ArgMin(corner_sums(corners))],
       corners[ArgMin(corner_diffs(corners))],
       corners[ArgMax(corner_sums(corners))],
       corners[ArgMax(corner_diffs(corners))] >>

\* max_width with the bottom edge left out
max_width_TopOnly(oc) == EdgeLen(oc[2], oc[1])

\* max(int(width1), int(width2)): bottom edge and top edge
max_width(oc) == Max(EdgeLen(oc[3], oc[4]), EdgeLen(oc[2], oc[1]))

\* max(int(height1), int(height2)): right edge and left edge
max_height(oc) == Max(EdgeLen(oc[2], oc[3]), EdgeLen(oc[1], oc[4]))

destination_corners(mw, mh) ==
    << <<0, 0>>, <<mw - 1, 0>>, <<mw - 1, mh - 1>>, <<0, mh - 1>> >>

\* cv2.warpPerspective(img, M, (max_width, max_height)): max_height rows of
\* max_width samples, the channels and dtype of img
warpPerspective(img, oc, mw, mh) ==
    [img EXCEPT !.shape = <<mh, mw>> \o SubSeq(img.shape, 3, Len(img.shape)),
                !.ops = Append(img.ops, "warp"),
                !.quad = oc]

\* The record of one call: its locals and how it ended.  fault: one of the
\* two cv2 calls after the size check raises.
fix_perspective(img, corners, fault) ==
    LET oc == ordered_corners(corners)
        mw == max_width(oc)
        mh == max_height(oc)
        ex == IF mw < MinDimension \/ mh < MinDimension THEN "ValueError"
              ELSE IF fault THEN "cv2.error"
              ELSE "none"
    IN  [called     |-> TRUE,
         arg        |-> corners,
         ordered    |-> oc,
         max_width  |-> mw,
         max_height |-> mh,
         dst        |-> IF mw < MinDimension \/ mh < MinDimension THEN <<>>
                        ELSE destination_corners(mw, mh),
         exc        |-> ex,
         val        |-> IF ex = "none" THEN warpPerspective(img, oc, mw, mh)
                        ELSE NoArr]

\* before any call of fix_perspective
NotCalled ==
    [called |-> FALSE, arg |-> <<>>, ordered |-> <<>>, max_width |-> 0,
     max_height |-> 0, dst |-> <<>>, exc |-> "none", val |-> NoArr]

(* --------------------------- clean_up_image --------------------------- *)

\* lines 85-92: threshold_sauvola, the comparison, img_as_ubyte, the
\* inversions, erode and dilate keep the shape; img_as_ubyte makes uint8
sauvola_open(gray) ==
    [gray EXCEPT !.dtype = "uint8", !.ops = Append(gray.ops, "sauvola_open")]

\* clean_up_image without the grayscale conversion of lines 73-76
clean_up_image_NoGray(image, fault) ==
    IF fault THEN Raise("Exception") ELSE Ok(sauvola_open(image))

\* fault: a library call of the stage raises (an Exception)
clean_up_image(image, fault) ==
    LET g == IF Len(image.shape) = 3 THEN cvtColor(image, "BGR2GRAY")
             ELSE Ok(image)
    IN  IF g.exc # "none" THEN Raise(g.exc)
        ELSE IF fault THEN Raise("Exception")
        ELSE Ok(sauvola_open(g.val))

(* ---------------------------- process_image --------------------------- *)

\* What one step of process_image leaves behind: where control goes, the
\* image carried forward, the notifications shown so far and the exception
\* leaving process_image, if any.
Step(next, carried, shown, e) ==
    [pc |-> next, corrected_image |-> carried, notes |-> shown, raised |-> e]

\* st.success / st.info / st.warning: ok says the call returns normally;
\* a call that raises shows nothing
st_notify(shown, kind, ok) == IF ok THEN Append(shown, kind) ELSE shown

\* lines 109-111, the outer handler.  The warning is not inside any try:
\* if it raises, the exception leaves process_image
OuterExcept(img, shown, ok110) ==
    IF ok110 THEN Step("clean", img, st_notify(shown, "warning", ok110), "none")
    ELSE Step("raised", NoArr, shown, "StreamlitAPIException")

\* the inner handler showing a success where line 104 shows the warning
InnerExcept_Success(img, shown, ok104, ok110) ==
    IF ok104 THEN Step("clean", img, st_notify(shown, "success", ok104), "none")
    ELSE OuterExcept(img, shown, ok110)

\* lines 103-105, the inner handler, itself inside the outer try
InnerExcept(img, shown, ok104, ok110) ==
    IF ok104 THEN Step("clean", img, st_notify(shown, "warning", ok104), "none")
    ELSE OuterExcept(img, shown, ok110)

\* the else branch showing a warning where line 108 shows the info
NoCorners_Warns(img, shown, ok108, ok110) ==
    IF ok108 THEN Step("clean", img, st_notify(shown, "warning", ok108), "none")
    ELSE OuterExcept(img, shown, ok110)

\* lines 106-108: no corners
NoCorners(img, shown, ok108, ok110) ==
    IF ok108 THEN Step("clean", img, st_notify(shown, "info", ok108), "none")
    ELSE OuterExcept(img, shown, ok110)

\* lines 98-99 and 106-111 after find_document_corners ended as d
AfterDetect(d, img, shown, ok108, ok110) ==
    IF d.exc # "none" THEN OuterExcept(img, shown, ok110)
    ELSE IF d.val # <<>> THEN Step("rectify", NoArr, shown, "none")
    ELSE NoCorners(img, shown, ok108, ok110)

\* lines 101-105 after fix_perspective ended as r
AfterRectify(r, img, shown, ok102, ok104, ok110) ==
    IF r.exc = "none" /\ ok102
    THEN Step("clean", r.val, st_notify(shown, "success", ok102), "none")
    ELSE InnerExcept(img, shown, ok104, ok110)

\* the fallback without the grayscale conversion of line 118
BasicProcessing_PassThrough(corrected) == Ok(corrected)

\* lines 117-120: the fallback of the Clean stage
BasicProcessing(corrected) ==
    IF Len(corrected.shape) = 3 THEN cvtColor(corrected, "BGR2GRAY")
    ELSE Ok(corrected)

\* the Clean stage announcing its success as the Rectify stage does
AfterClean_Announces(c, corrected, shown, ok116) ==
    IF c.exc = "none"
    THEN [final_image |-> c.val, notes |-> Append(shown, "success"),
          raised |-> "none"]
    ELSE [final_image |-> BasicProcessing(corrected).val,
          notes       |-> st_notify(shown, "warning", ok116),
          raised      |-> BasicProcessing(corrected).exc]

\* lines 113-120 after clean_up_image ended as c: the final image and the
\* exception leaving process_image, if any
AfterClean(c, corrected, shown, ok116) ==
    IF c.exc = "none" THEN [final_image |-> c.val, notes |-> shown, raised |-> "none"]
    ELSE IF ~ok116
         THEN [final_image |-> NoArr, notes |-> shown,
               raised |-> "StreamlitAPIException"]
         ELSE [final_image |-> BasicProcessing(corrected).val,
               notes       |-> st_notify(shown, "warning", ok116),
               raised      |-> BasicProcessing(corrected).exc]

(* ---------------------------- main: helpers --------------------------- *)

\* image_list[a], image_list[b] = image_list[b], image_list[a], on positions
\* counted from 1
Swap(image_list, a, b) ==
    [image_list EXCEPT ![a] = image_list[b], ![b] = image_list[a]]

\* a list without the entry at position a, counted from 1
Pop(image_list, a) ==
    SubSeq(image_list, 1, a - 1) \o SubSeq(image_list, a + 1, Len(image_list))

\* a Move Up that puts the entry at the head of the list
move_image_up_ToTop(image_list, index) ==
    IF index > 0 /\ index < Len(image_list)
    THEN [exc |-> "none",
          val |-> <<image_list[index + 1]>> \o Pop(image_list, index + 1)]
    ELSE [exc |-> "none", val |-> image_list]

\* lines 61-68; index counts from 0.  Indexing past the end raises
move_image_up(image_list, index) ==
    IF index > 0
    THEN IF index < Len(image_list)
         THEN [exc |-> "none", val |-> Swap(image_list, index + 1, index)]
         ELSE [exc |-> "IndexError", val |-> image_list]
    ELSE [exc |-> "none", val |-> image_list]

\* lines 70-77
move_image_down(image_list, index) ==
    IF index < Len(image_list) - 1
    THEN [exc |-> "none", val |-> Swap(image_list, index + 1, index + 2)]
    ELSE [exc |-> "none", val |-> image_list]

\* lines 79-85
remove_image(image_list, index) ==
    IF 0 <= index /\ index < Len(image_list)
    THEN [exc |-> "none", val |-> Pop(image_list, index + 1)]
    ELSE [exc |-> "none", val |-> image_list]

\* process_image(image) as main sees it, with notifications that return: the
\* call raises exactly when line 96 does, and the page returned is here the
\* cleaned page of an image in which no corners are found
process_image(image) ==
    LET c == cvtColor(np_array(image), "RGB2BGR")
    IN  IF c.exc # "none" THEN [exc |-> c.exc, val |-> NoPIL]
        ELSE [exc |-> "none", val |-> fromarray(clean_up_image(c.val, FALSE).val)]

\* [name for _, name in st.session_state.original_images]
existing_names(original_images) ==
    {original_images[k][2] : k \in 1..Len(original_images)}

\* lines 104-117, the loop over the uploader's files, on the session s; the
\* first exception ends the script run
RECURSIVE UploadLoop(_, _)
UploadLoop(files, s) ==
    IF files = <<>> \/ s.exc # "none" THEN s
    ELSE LET f  == Head(files)
             p  == process_image(f.image)
             s1 == [s EXCEPT !.original_images = Append(@, <<f.image, f.name>>),
                             !.processing = [@ EXCEPT ![f.name] = @ + 1]]
         IN  IF f.name \in existing_names(s.original_images)
             THEN UploadLoop(Tail(files), s)
             ELSE IF p.exc # "none" THEN [s1 EXCEPT !.exc = p.exc]
             ELSE UploadLoop(Tail(files),
                             [s1 EXCEPT !.processed_images = Append(@, <<p.val, f.name>>)])

\* line 145 for the entries 0 .. upto-1 of the review loop:
\* st.session_state.original_images[i][0] raises past the end of the list
ReviewRaises(s, upto) ==
    \E j \in 0..(upto - 1) :
        j < Len(s.processed_images) /\ j >= Len(s.original_images)

\* the statements of the button handlers, st.rerun() included
MoveUpHandler == <<"move_image_up(processed_images, i)",
                   "move_image_up(original_images, i)", "st.rerun()">>

MoveDownHandler == <<"move_image_down(processed_images, i)",
                     "move_image_down(original_images, i)", "st.rerun()">>

\* a Remove handler that removes from both lists before it reruns
RemoveHandler_BothLists == <<"remove_image(processed_images, i)",
                             "remove_image(original_images, i)", "st.rerun()">>

\* a Remove handler that removes from the original-image list alone
RemoveHandler_OriginalsOnly == <<"remove_image(original_images, i)", "st.rerun()">>

\* lines 138-141
RemoveHandler == <<"remove_image(processed_images, i)", "st.rerun()",
                   "remove_image(original_images, i)", "st.rerun()">>

\* a Clear All handler that empties both lists before it reruns
ClearAllHandler_BothLists == <<"processed_images = []", "original_images = []",
                               "st.rerun()">>

\* lines 191-197
ClearAllHandler == <<"processed_images = []", "st.rerun()",
                     "original_images = []", "st.rerun()",
                     "del pdf_data", "st.rerun()">>

\* line 175 after create_pdf_from_images returned; no rerun
CreatePdfHandler == <<"pdf_data = create_pdf(processed_images)">>

NoPdf == [stored |-> FALSE, pages |-> 0]

\* one statement of a handler on the session s
Do(stmt, s, i) ==
    LET of(r, field) == IF r.exc # "none" THEN [s EXCEPT !.exc = r.exc]
                        ELSE [s EXCEPT ![field] = r.val]
    IN  CASE stmt = "move_image_up(processed_images, i)" ->
                 of(move_image_up(s.processed_images, i), "processed_images")
          [] stmt = "move_image_up(original_images, i)" ->
                 of(move_image_up(s.original_images, i), "original_images")
          [] stmt = "move_image_down(processed_images, i)" ->
                 of(move_image_down(s.processed_images, i), "processed_images")
          [] stmt = "move_image_down(original_images, i)" ->
                 of(move_image_down(s.original_images, i), "original_images")
          [] stmt = "remove_image(processed_images, i)" ->
                 of(remove_image(s.processed_images, i), "processed_images")
          [] stmt = "remove_image(original_images, i)" ->
                 of(remove_image(s.original_images, i), "original_images")
          [] stmt = "processed_images = []" -> [s EXCEPT !.processed_images = <<>>]
          [] stmt = "original_images = []" -> [s EXCEPT !.original_images = <<>>]
          [] stmt = "del pdf_data" -> [s EXCEPT !.pdf_data = NoPdf]
          [] stmt = "pdf_data = create_pdf(processed_images)" ->
                 [s EXCEPT !.pdf_data =
                     [stored |-> TRUE, pages |-> Len(s.processed_images)]]

\* the statements of a handler in order, up to the first st.rerun() (which
\* raises the rerun exception: nothing after it runs) or exception
RECURSIVE Exec(_, _, _)
Exec(stmts, s, i) ==
    IF stmts = <<>> \/ s.exc # "none" THEN s
    ELSE IF Head(stmts) = "st.rerun()" THEN [s EXCEPT !.rerun = TRUE]
    ELSE Exec(Tail(stmts), Do(Head(stmts), s, i), i)

\* one script run with no button pressed: the upload loop, then the review
\* loop over every entry
RunScript(files, s) ==
    LET u == UploadLoop(files, [s EXCEPT !.exc = "none", !.rerun = FALSE])
    IN  IF u.exc # "none" THEN u
        ELSE IF ReviewRaises(u, Len(u.processed_images))
        THEN [u EXCEPT !.exc = "IndexError"]
        ELSE u

\* the script run of a button press: the upload loop, the review loop up to
\* the button (upto entries looked up), the handler, and the run that
\* st.rerun() starts
PressRun(files, s, handler, i, upto) ==
    LET u == UploadLoop(files, [s EXCEPT !.exc = "none", !.rerun = FALSE])
        x == Exec(handler, u, i)
    IN  IF u.exc # "none" THEN u
        ELSE IF ReviewRaises(u, upto) THEN [u EXCEPT !.exc = "IndexError"]
        ELSE IF x.exc # "none" THEN x
        ELSE IF x.rerun THEN RunScript(files, x)
        ELSE x

(* ------------------------------- state -------------------------------- *)

VARIABLES
    entry,            \* the function of processing.py that was called
    pc,               \* where the call stands
    image,            \* process_image's argument, a PIL image
    img,              \* process_image's img; the raster argument otherwise
    corners,          \* the corners handed to fix_perspective
    fp,               \* the latest call of fix_perspective
    corrected_image,  \* process_image's corrected_image
    final_image,      \* process_image's final_image
    pil_image,        \* what process_image returned
    ret,              \* what a direct call of a stage returned
    raised,           \* the exception that left the call, or "none"
    notes,            \* the notifications shown, in order
    calls,            \* the stage calls made, in order
    stFaulty,         \* whether notification calls can raise
    uploaded_files,   \* the files the uploader widget holds
    original_images,  \* st.session_state.original_images
    processed_images, \* st.session_state.processed_images
    pdf_data,         \* st.session_state.pdf_data, if stored
    processing,       \* how often each name was handed to process_image
    run_exc,          \* the exception that ended the latest script run
    rendered,         \* the latest script run ran to its end
    last              \* the latest user event

\* the session of main.py
uiVars == <<uploaded_files, original_images, processed_images, pdf_data,
            processing, run_exc, rendered, last>>

\* a call into processing.py
callVars == <<entry, pc, image, img, corners, fp, corrected_image, final_image,
              pil_image, ret, raised, notes, calls, stFaulty>>

vars == <<entry, pc, image, img, corners, fp, corrected_image, final_image,
          pil_image, ret, raised, notes, calls, stFaulty, uploaded_files,
          original_images, processed_images, pdf_data, processing, run_exc,
          rendered, last>>

(* ------------------------------- inputs ------------------------------- *)

\* PIL sizes (width, height) of the uploaded images
Sizes == {<<100, 120>>, <<120, 100>>}

\* what findContours + approxPolyDP can report for one contour
ContourCatalog ==
    { [area |-> 3600, peri |-> 240, approx |-> <<P(2, 0), P(0, 0), P(0, 2), P(2, 2)>>],
      [area |-> 2700, peri |-> 247, approx |-> <<P(0, 0), P(0, 1), P(2, 2), P(2, 0)>>],
      [area |-> 1800, peri |-> 180, approx |-> <<P(0, 0), P(1, 0), P(1, 2), P(0, 2)>>],
      [area |-> 900,  peri |-> 120, approx |-> <<P(0, 0), P(1, 0), P(1, 1), P(0, 1)>>],
      [area |-> 1800, peri |-> 205, approx |-> <<P(0, 0), P(2, 0), P(0, 2)>>] }

Scenes == UNION {[1..n -> ContourCatalog] : n \in 0..MaxContours}

\* the decoded uploads the spec admits: 8-bit RGB or grayscale
Uploads ==
    {[mode |-> m, size |-> sz, ops |-> <<>>, quad |-> <<>>, contours |-> sc] :
        m \in {"RGB", "L"}, sz \in Sizes, sc \in Scenes}

\* rasters handed to a stage called on its own: BGR and grayscale
Rasters ==
    {[shape |-> sh, dtype |-> "uint8", ops |-> <<>>, quad |-> <<>>,
      contours |-> <<>>] :
        sh \in {<<sz[2], sz[1], 3>> : sz \in Sizes} \cup {<<sz[2], sz[1]>> : sz \in Sizes}}

\* the raster handed to fix_perspective called on its own
Photo ==
    [shape |-> <<120, 100, 3>>, dtype |-> "uint8", ops |-> <<>>, quad |-> <<>>,
     contours |-> <<>>]

\* every (4, 2) array of grid points, in every order, repeats included
Quads == [1..4 -> Points]

\* small frames (rows, columns): 10% of the frame is 480 and 600 pixels
FrameShapes == {<<60, 80, 3>>, <<60, 100, 3>>}

\* contours of a small frame: a 30 x 20 rectangle (perimeter exactly 100), a
\* 40 x 12 rectangle, a 25 x 24 rectangle (perimeter 98) and a triangle
FrameCatalog ==
    { [area |-> 600, peri |-> 100, approx |-> <<<<0, 0>>, <<30, 0>>, <<30, 20>>, <<0, 20>>>>],
      [area |-> 480, peri |-> 104, approx |-> <<<<5, 5>>, <<45, 5>>, <<45, 17>>, <<5, 17>>>>],
      [area |-> 600, peri |-> 98,  approx |-> <<<<2, 2>>, <<27, 2>>, <<27, 26>>, <<2, 26>>>>],
      [area |-> 700, peri |-> 128, approx |-> <<<<0, 0>>, <<40, 0>>, <<0, 35>>>>] }

FrameScenes == UNION {[1..n -> FrameCatalog] : n \in 0..MaxSceneLen}

\* the BGR frames handed to find_document_corners called on its own
Frames ==
    {[shape |-> sh, dtype |-> "uint8", ops |-> <<>>, quad |-> <<>>,
      contours |-> sc] : sh \in FrameShapes, sc \in FrameScenes}

\* how many files the uploader holds at most
MaxUploads == 2

\* a decoded upload of at most 5 MB (line 111 does not resize it)
Page(mode) ==
    [mode |-> mode, size |-> <<100, 120>>, ops |-> <<>>, quad |-> <<>>,
     contours |-> <<>>]

\* the files a user picks: three RGB photos, and a grayscale scan that has
\* the name of one of them
UserFiles ==
    {[name |-> n, image |-> Page("RGB")] : n \in {"a.png", "b.png", "c.png"}}
        \cup {[name |-> "b.png", image |-> Page("L")]}

\* what one selection in the file dialog adds to the uploader: one file or
\* more, no file twice
Selections ==
    {sel \in UNION {[1..n -> UserFiles] : n \in 1..MaxUploads} :
        \A j, k \in 1..Len(sel) : sel[j] = sel[k] => j = k}

StOutcomes == IF stFaulty THEN {TRUE, FALSE} ELSE {TRUE}

Call(fn, a, e) == [fn |-> fn, arg |-> a, exc |-> e]

(* -------------------------------- Init -------------------------------- *)

InitLocals ==
    /\ fp = NotCalled
    /\ corrected_image = NoArr
    /\ final_image = NoArr
    /\ pil_image = NoPIL
    /\ ret = NoArr
    /\ raised = "none"
    /\ notes = <<>>
    /\ calls = <<>>

InitProcessImage ==
    /\ entry = "process_image"
    /\ pc = "convert"
    /\ image \in Uploads
    /\ img = NoArr
    /\ corners = <<>>

InitFixPerspective ==
    /\ entry = "fix_perspective"
    /\ pc = "call"
    /\ image = NoPIL
    /\ img = Photo
    /\ corners \in Quads

InitCleanUpImage ==
    /\ entry = "clean_up_image"
    /\ pc = "call"
    /\ image = NoPIL
    /\ img \in Rasters
    /\ corners = <<>>

InitFindDocumentCorners ==
    /\ entry = "find_document_corners"
    /\ pc = "call"
    /\ image = NoPIL
    /\ img \in Frames
    /\ corners = <<>>

\* lines 92-95 and a fresh browser session: empty lists, nothing uploaded
InitSession ==
    /\ uploaded_files = <<>>
    /\ original_images = <<>>
    /\ processed_images = <<>>
    /\ pdf_data = NoPdf
    /\ processing = [n \in {f.name : f \in UserFiles} |-> 0]
    /\ run_exc = "none"
    /\ rendered = TRUE
    /\ last = [kind |-> "open", i |-> 0]

InitCall == InitLocals /\ (InitProcessImage \/ InitFixPerspective \/ InitCleanUpImage)

Init == InitCall /\ InitSession /\ stFaulty = FALSE

(* ------------------------------- actions ------------------------------ *)

\* line 96: img = cv2.cvtColor(np.array(image), cv2.COLOR_RGB2BGR)
Convert ==
    /\ entry = "process_image" /\ pc = "convert"
    /\ LET c == cvtColor(np_array(image), "RGB2BGR")
       IN  /\ img' = c.val
           /\ raised' = c.exc
           /\ pc' = IF c.exc = "none" THEN "detect" ELSE "raised"
    /\ UNCHANGED <<entry, image, corners, fp, corrected_image, final_image,
                   pil_image, ret, notes, calls, stFaulty>>
    /\ UNCHANGED uiVars

\* lines 97-99 and 106-111: the DetectCorners stage
DetectCorners ==
    /\ entry = "process_image" /\ pc = "detect"
    /\ \E fault \in BOOLEAN, ok108 \in StOutcomes, ok110 \in StOutcomes :
         LET d == find_document_corners(img, fault)
             s == AfterDetect(d, img, notes, ok108, ok110)
         IN  /\ corners' = d.val
             /\ calls' = Append(calls, Call("find_document_corners", img, d.exc))
             /\ pc' = s.pc
             /\ corrected_image' = s.corrected_image
             /\ notes' = s.notes
             /\ raised' = s.raised
    /\ UNCHANGED <<entry, image, img, fp, final_image, pil_image, ret, stFaulty>>
    /\ UNCHANGED uiVars

\* lines 100-105 (and 109-111): the Rectify stage
Rectify ==
    /\ entry = "process_image" /\ pc = "rectify"
    /\ \E fault \in BOOLEAN, ok102 \in StOutcomes, ok104 \in StOutcomes,
          ok110 \in StOutcomes :
         LET r == fix_perspective(img, corners, fault)
             s == AfterRectify(r, img, notes, ok102, ok104, ok110)
         IN  /\ fp' = r
             /\ calls' = Append(calls, Call("fix_perspective", img, r.exc))
             /\ pc' = s.pc
             /\ corrected_image' = s.corrected_image
             /\ notes' = s.notes
             /\ raised' = s.raised
    /\ UNCHANGED <<entry, image, img, corners, final_image, pil_image, ret,
                   stFaulty>>
    /\ UNCHANGED uiVars

\* lines 113-120: the Clean stage
Clean ==
    /\ entry = "process_image" /\ pc = "clean"
    /\ \E fault \in BOOLEAN, ok116 \in StOutcomes :
         LET c == clean_up_image(corrected_image, fault)
             s == AfterClean(c, corrected_image, notes, ok116)
         IN  /\ calls' = Append(calls, Call("clean_up_image", corrected_image, c.exc))
             /\ final_image' = s.final_image
             /\ notes' = s.notes
             /\ raised' = s.raised
             /\ pc' = IF s.raised = "none" THEN "return" ELSE "raised"
    /\ UNCHANGED <<entry, image, img, corners, fp, corrected_image, pil_image,
                   ret, stFaulty>>
    /\ UNCHANGED uiVars

\* lines 123-125: pil_image = Image.fromarray(final_image); return pil_image
Return ==
    /\ entry = "process_image" /\ pc = "return"
    /\ LET p == fromarray(final_image)
       IN  /\ pil_image' = IF p.mode = "other" THEN NoPIL ELSE p
           /\ raised' = IF p.mode = "other" THEN "TypeError" ELSE "none"
           /\ pc' = IF p.mode = "other" THEN "raised" ELSE "done"
    /\ UNCHANGED <<entry, image, img, corners, fp, corrected_image, final_image,
                   ret, notes, calls, stFaulty>>
    /\ UNCHANGED uiVars

\* a caller's fix_perspective(img, corners)
CallFixPerspective ==
    /\ entry = "fix_perspective" /\ pc = "call"
    /\ \E fault \in BOOLEAN :
         LET r == fix_perspective(img, corners, fault)
         IN  /\ fp' = r
             /\ calls' = Append(calls, Call("fix_perspective", img, r.exc))
             /\ ret' = r.val
             /\ raised' = r.exc
             /\ pc' = IF r.exc = "none" THEN "done" ELSE "raised"
    /\ UNCHANGED <<entry, image, img, corners, corrected_image, final_image,
                   pil_image, notes, stFaulty>>
    /\ UNCHANGED uiVars

\* a caller's clean_up_image(image)
CallCleanUpImage ==
    /\ entry = "clean_up_image" /\ pc = "call"
    /\ \E fault \in BOOLEAN :
         LET c == clean_up_image(img, fault)
         IN  /\ calls' = Append(calls, Call("clean_up_image", img, c.exc))
             /\ ret' = c.val
             /\ raised' = c.exc
             /\ pc' = IF c.exc = "none" THEN "done" ELSE "raised"
    /\ UNCHANGED <<entry, image, img, corners, fp, corrected_image, final_image,
                   pil_image, notes, stFaulty>>
    /\ UNCHANGED uiVars

\* a caller's find_document_corners(img)
CallFindDocumentCorners ==
    /\ entry = "find_document_corners" /\ pc = "call"
    /\ \E fault \in BOOLEAN :
         LET d == find_document_corners(img, fault)
         IN  /\ corners' = d.val
             /\ calls' = Append(calls, Call("find_document_corners", img, d.exc))
             /\ raised' = d.exc
             /\ pc' = IF d.exc = "none" THEN "done" ELSE "raised"
    /\ UNCHANGED <<entry, image, img, fp, corrected_image, final_image,
                   pil_image, ret, notes, stFaulty>>
    /\ UNCHANGED uiVars

Next ==
    \/ Convert
    \/ DetectCorners
    \/ Rectify
    \/ Clean
    \/ Return
    \/ CallFixPerspective
    \/ CallCleanUpImage

Spec == Init /\ [][Next]_vars

\* process_image alone, in a session whose st.* calls can raise (a script
\* run that is being stopped, a closed connection)
InitNotify == InitLocals /\ InitProcessImage /\ InitSession /\ stFaulty = TRUE

NextProcessImage ==
    \/ Convert
    \/ DetectCorners
    \/ Rectify
    \/ Clean
    \/ Return

SpecNotify == InitNotify /\ [][NextProcessImage]_vars

\* find_document_corners called on its own, on small frames of up to
\* MaxSceneLen contours
InitDetect ==
    InitLocals /\ InitFindDocumentCorners /\ InitSession /\ stFaulty = FALSE

SpecDetect == InitDetect /\ [][CallFindDocumentCorners]_vars

(* -------------------------------- main -------------------------------- *)

\* a browser session of main.py; no call into processing.py is open between
\* two script runs
InitMain ==
    /\ InitLocals
    /\ entry = "main"
    /\ pc = "idle"
    /\ image = NoPIL
    /\ img = NoArr
    /\ corners = <<>>
    /\ stFaulty = FALSE
    /\ InitSession

\* st.session_state as the script run of an event finds it
Session ==
    [original_images  |-> original_images,
     processed_images |-> processed_images,
     pdf_data         |-> pdf_data,
     processing       |-> processing,
     exc              |-> "none",
     rerun            |-> FALSE]

\* the session the script run(s) of the event leave behind
Leaves(x, kind, i) ==
    /\ original_images' = x.original_images
    /\ processed_images' = x.processed_images
    /\ pdf_data' = x.pdf_data
    /\ processing' = x.processing
    /\ run_exc' = x.exc
    /\ rendered' = (x.exc = "none")
    /\ last' = [kind |-> kind, i |-> i]

\* a widget of the review section can be pressed: the latest run drew it
Reviewing == entry = "main" /\ rendered /\ processed_images # <<>>

\* lines 98-117: the user selects more files; the uploader lists them after
\* the ones it holds
Upload ==
    /\ entry = "main"
    /\ \E sel \in Selections :
         /\ Len(uploaded_files) + Len(sel) <= MaxUploads
         /\ \A k \in 1..Len(sel) : sel[k] \notin Range(uploaded_files)
         /\ uploaded_files' = uploaded_files \o sel
         /\ Leaves(RunScript(uploaded_files \o sel, Session), "upload", 0)
    /\ UNCHANGED callVars

\* lines 98-117: the user takes file k off the uploader's list
Unselect ==
    /\ entry = "main"
    /\ \E k \in 1..Len(uploaded_files) :
         /\ uploaded_files' = Pop(uploaded_files, k)
         /\ Leaves(RunScript(Pop(uploaded_files, k), Session), "unselect", k)
    /\ UNCHANGED callVars

\* lines 127-131: Move Up is drawn for the entries with i > 0
MoveUp ==
    /\ Reviewing
    /\ \E i \in 1..(Len(processed_images) - 1) :
         Leaves(PressRun(uploaded_files, Session, MoveUpHandler, i, i), "up", i)
    /\ UNCHANGED <<callVars, uploaded_files>>

\* lines 132-136: Move Down is drawn for the entries before the last
MoveDown ==
    /\ Reviewing
    /\ \E i \in 0..(Len(processed_images) - 2) :
         Leaves(PressRun(uploaded_files, Session, MoveDownHandler, i, i), "down", i)
    /\ UNCHANGED <<callVars, uploaded_files>>

\* lines 137-141
Remove ==
    /\ Reviewing
    /\ \E i \in 0..(Len(processed_images) - 1) :
         Leaves(PressRun(uploaded_files, Session, RemoveHandler, i, i), "remove", i)
    /\ UNCHANGED <<callVars, uploaded_files>>

\* lines 156-175; fault: create_pdf_from_images or the file handling raises
CreatePdf ==
    /\ Reviewing
    /\ \E fault \in BOOLEAN :
         LET x == PressRun(uploaded_files, Session, CreatePdfHandler, 0,
                           Len(processed_images))
         IN  Leaves(IF fault THEN [Session EXCEPT !.exc = "Exception"] ELSE x,
                    "create_pdf", 0)
    /\ UNCHANGED <<callVars, uploaded_files>>

\* lines 190-197
ClearAll ==
    /\ Reviewing
    /\ Leaves(PressRun(uploaded_files, Session, ClearAllHandler, 0,
                       Len(processed_images)), "clear", 0)
    /\ UNCHANGED <<callVars, uploaded_files>>

NextMain ==
    \/ Upload
    \/ Unselect
    \/ MoveUp
    \/ MoveDown
    \/ Remove
    \/ CreatePdf
    \/ ClearAll

SpecMain == InitMain /\ [][NextMain]_vars

(* ----------------------------- vocabulary ----------------------------- *)

InProcessImage == entry = "process_image"

CallsOf(fn) == {i \in 1..Len(calls) : calls[i].fn = fn}

\* the Corner Detector ran and returned None
DetectorNotFound ==
    /\ InProcessImage
    /\ CallsOf("find_document_corners") # {}
    /\ \A i \in CallsOf("find_document_corners") : calls[i].exc = "none"
    /\ corners = <<>>

\* the Corner Detector returned 4 corners and the Rectifier raised
RectifierFailed == InProcessImage /\ corners # <<>> /\ fp.called /\ fp.exc # "none"

\* the Corner Detector returned 4 corners and the Rectifier returned
RectifierSucceeded == InProcessImage /\ corners # <<>> /\ fp.called /\ fp.exc = "none"

CleanerFailed ==
    /\ InProcessImage
    /\ \E i \in CallsOf("clean_up_image") : calls[i].exc # "none"

\* cv2.COLOR_BGR2GRAY of a 3-channel raster, written out
PlainGray(a) ==
    [a EXCEPT !.shape = <<a.shape[1], a.shape[2]>>, !.ops = Append(a.ops, "BGR2GRAY")]

Perms4 == {p \in [1..4 -> 1..4] : \A i, j \in 1..4 : p[i] = p[j] => i = j}

Cross(a, b, c) == (b[1] - a[1]) * (c[2] - a[2]) - (b[2] - a[2]) * (c[1] - a[1])

Collinear(q) == \A i, j, k \in 1..4 : Cross(q[i], q[j], q[k]) = 0

Coincident(q) == \E i, j \in 1..4 : i # j /\ q[i] = q[j]

(* ------------------------------- claims ------------------------------- *)

\* C1: process_image never raises and always returns exactly one final
\* image: no step of it, the colour conversion of the input included, ends
\* with an exception leaving process_image, and a finished call holds an
\* image.
C1_NeverRaises ==
    InProcessImage =>
        /\ raised = "none"
        /\ pc # "raised"
        /\ (pc = "done" => pil_image # NoPIL)

\* C2: when the Corner Detector returned 4 corners and the Rectifier
\* raised, process_image does not raise, the Page Cleaner is handed the
\* unmodified pre-rectification image, a warning is shown and no success.
C2_RectifierFailureFallsBack ==
    RectifierFailed =>
        /\ raised = "none" /\ pc # "raised"
        /\ corrected_image = img
        /\ img.ops = <<"RGB2BGR">> /\ img.quad = <<>>
        /\ \A i \in CallsOf("clean_up_image") : calls[i].arg = img
        /\ (pc \in {"return", "done"} => CallsOf("clean_up_image") # {})
        /\ Len(notes) >= 1 /\ notes[1] = "warning"
        /\ "success" \notin Range(notes)

C2_Witness ==
    /\ RectifierFailed
    /\ fp.exc = "ValueError"
    /\ pc = "done"
    /\ pil_image # NoPIL

\* C3: when the Corner Detector returns None, fix_perspective is never
\* called, the Page Cleaner is handed the original image unchanged, and the
\* notification of that transition is an info one (no warning, no success).
C3_NotFoundSkipsRectify ==
    DetectorNotFound =>
        /\ ~fp.called
        /\ CallsOf("fix_perspective") = {}
        /\ corrected_image = img
        /\ img.ops = <<"RGB2BGR">> /\ img.quad = <<>>
        /\ \A i \in CallsOf("clean_up_image") : calls[i].arg = img
        /\ (pc \in {"return", "done"} => CallsOf("clean_up_image") # {})
        /\ Len(notes) >= 1 /\ notes[1] = "info"
        /\ (pc = "clean" => notes = <<"info">>)
        /\ "success" \notin Range(notes)

C3_Witness ==
    /\ DetectorNotFound
    /\ image.contours # <<>>
    /\ pc = "done"
    /\ pil_image # NoPIL

\* C4: the Page Cleaner is handed the Rectifier's output if and only if the
\* Corner Detector returned corners and the Rectifier returned; exactly then
\* a success notification is shown; the stages run in the order
\* DetectCorners, Rectify (optional), Clean, Done, and every invocation
\* runs Clean exactly once.
C4_StageOrder ==
    InProcessImage =>
        /\ \A i \in CallsOf("clean_up_image") :
              (fp.called /\ calls[i].arg = fp.val /\ fp.val # NoArr)
                  <=> RectifierSucceeded
        /\ (pc \in {"clean", "return", "done"} =>
              (("success" \in Range(notes)) <=> RectifierSucceeded))
        /\ (pc \notin {"clean", "return", "done"} => "success" \notin Range(notes))
        /\ [i \in 1..Len(calls) |-> calls[i].fn] \in
              { <<>>,
                <<"find_document_corners">>,
                <<"find_document_corners", "fix_perspective">>,
                <<"find_document_corners", "clean_up_image">>,
                <<"find_document_corners", "fix_perspective", "clean_up_image">> }
        /\ (pc \in {"return", "done"} => Cardinality(CallsOf("clean_up_image")) = 1)
        /\ (pc \notin {"convert", "detect", "rectify", "clean"} =>
              pc = "done" \/ pc = "return")

\* C5: when the Page Cleaner fails, the final image is the plain grayscale
\* conversion of the image that survived the earlier stages (the rectified
\* image if rectification succeeded, otherwise the original), or that image
\* itself if it is single-channel; a warning is shown and process_image
\* still returns.
C5_CleanerFailureFallsBack ==
    CleanerFailed =>
        /\ raised = "none" /\ pc \in {"return", "done"}
        /\ corrected_image = IF RectifierSucceeded THEN fp.val ELSE img
        /\ final_image = IF Len(corrected_image.shape) = 3
                         THEN PlainGray(corrected_image)
                         ELSE corrected_image
        /\ notes # <<>> /\ notes[Len(notes)] = "warning"
        /\ (pc = "return" => fromarray(final_image).mode # "other")
        /\ (pc = "done" => /\ pil_image.ops = final_image.ops
                           /\ pil_image.quad = final_image.quad)

C5_Witness ==
    /\ CleanerFailed
    /\ RectifierSucceeded
    /\ pc = "done"
    /\ pil_image.ops = <<"RGB2BGR", "warp", "BGR2GRAY">>

\* C6: the corner ordering of fix_perspective does not depend on the order
\* in which 4 (distinct) points are passed: each of the 24 orderings of the
\* same points gives the same (top-left, top-right, bottom-right,
\* bottom-left), ties on x+y or on the difference included.
C6_OrderingPermutationInvariant ==
    (fp.called /\ Cardinality(Range(fp.arg)) = 4) =>
        \A p \in Perms4 :
            ordered_corners([i \in 1..4 |-> fp.arg[p[i]]]) = fp.ordered

\* C7: fix_perspective raises the validation error for every 4 corner
\* points that are collinear or contain coincident points.
C7_DegenerateCornersRaise ==
    (fp.called /\ (Collinear(fp.arg) \/ Coincident(fp.arg))) =>
        fp.exc = "ValueError"

\* C8: the target width is the larger of the top-edge and bottom-edge
\* lengths and the target height the larger of the left-edge and right-edge
\* lengths of the ordered corners; the validation error is raised, and no
\* image produced, if and only if one of them is below 50; otherwise the
\* raster returned is exactly width x height and the destination corners
\* are (0,0), (width-1,0), (width-1,height-1), (0,height-1).
C8_TargetDimensions ==
    fp.called =>
        LET tl == fp.ordered[1]
            tr == fp.ordered[2]
            br == fp.ordered[3]
            bl == fp.ordered[4]
            w  == IF EdgeLen(tl, tr) >= EdgeLen(bl, br)
                  THEN EdgeLen(tl, tr) ELSE EdgeLen(bl, br)
            h  == IF EdgeLen(tl, bl) >= EdgeLen(tr, br)
                  THEN EdgeLen(tl, bl) ELSE EdgeLen(tr, br)
        IN  /\ fp.max_width = w
            /\ fp.max_height = h
            /\ (fp.exc = "ValueError") <=> (w < 50 \/ h < 50)
            /\ (fp.exc = "ValueError" => fp.val = NoArr)
            /\ (fp.exc = "none" =>
                  /\ fp.val.shape[1] = h /\ fp.val.shape[2] = w
                  /\ Len(fp.val.shape) = Len(calls[Len(calls)].arg.shape)
                  /\ fp.dst = << <<0, 0>>, <<w - 1, 0>>, <<w - 1, h - 1>>,
                                 <<0, h - 1>> >>)
            /\ (fp.exc # "none" <=> fp.val = NoArr)
            /\ (entry = "fix_perspective" =>
                  /\ ret = fp.val
                  /\ raised = fp.exc
                  /\ pc = IF fp.exc = "none" THEN "done" ELSE "raised")

C8_Witness ==
    /\ entry = "fix_perspective"
    /\ pc = "done"
    /\ fp.max_width > fp.max_height
    /\ EdgeLen(fp.ordered[1], fp.ordered[2]) # EdgeLen(fp.ordered[4], fp.ordered[3])
    /\ ret.shape = <<fp.max_height, fp.max_width, 3>>

\* C9: for 4 distinct input points the ordering is a bijection onto the
\* roles: every input point fills exactly one role, none fills two.
C9_OrderingBijective ==
    (fp.called /\ Cardinality(Range(fp.arg)) = 4) =>
        /\ Cardinality(Range(fp.ordered)) = 4
        /\ Range(fp.ordered) = Range(fp.arg)

\* C10: on every path through process_image the final image is
\* single-channel 8-bit with the height and width of the image handed to
\* the Clean stage; clean_up_image itself returns a single-channel image of
\* its input's height and width, for grayscale and for 3-channel input.
C10_SingleChannelSameSize ==
    /\ (InProcessImage /\ pc \in {"return", "done"}) =>
          LET a == calls[Len(calls)].arg
          IN  /\ calls[Len(calls)].fn = "clean_up_image"
              /\ final_image.shape = <<a.shape[1], a.shape[2]>>
              /\ final_image.dtype = "uint8"
              /\ (pc = "done" => /\ pil_image.mode = "L"
                                 /\ pil_image.size = <<a.shape[2], a.shape[1]>>)
    /\ (entry = "clean_up_image" /\ pc = "done") =>
          /\ ret.shape = <<img.shape[1], img.shape[2]>>
          /\ ret.dtype = "uint8"

C10_Witness ==
    /\ InProcessImage
    /\ pc = "done"
    /\ RectifierSucceeded
    /\ ~CleanerFailed
    /\ pil_image.size = <<fp.max_width, fp.max_height>>
    /\ pil_image.size # image.size

\* C11 as claimed: every stage that ran, DetectCorners, Rectify and Clean
\* alike, produced one notification of kind info, warning or success,
\* whether it succeeded or fell back.
C11_OneNotificationPerStage ==
    InProcessImage =>
        /\ Range(notes) \subseteq {"info", "warning", "success"}
        /\ (pc \in {"rectify", "clean", "return", "done"} => Len(notes) = Len(calls))

\* C11 as amended: one notification tells how locating and rectifying the
\* page ended (info: no corners; success: rectified; warning: the detector
\* or the rectifier raised), one more warning tells that the Page Cleaner
\* failed; finding corners and cleaning successfully show nothing.
C11_NotificationsOfARun ==
    InProcessImage =>
        LET located == IF RectifierSucceeded THEN "success"
                       ELSE IF DetectorNotFound THEN "info"
                       ELSE "warning"
        IN  /\ (pc \in {"convert", "detect", "rectify"} => notes = <<>>)
            /\ (pc = "clean" => notes = <<located>>)
            /\ (pc \in {"return", "done"} =>
                  notes = IF CleanerFailed THEN <<located, "warning">>
                          ELSE <<located>>)

C11_Witness ==
    /\ InProcessImage
    /\ pc = "done"
    /\ RectifierSucceeded
    /\ ~CleanerFailed
    /\ Len(calls) = 3
    /\ notes = <<"success">>

SumOf(q) == q[1] + q[2]

\* C12 as claimed: top-left minimizes x+y, bottom-right maximizes x+y,
\* top-right minimizes x-y and bottom-left maximizes x-y.
C12_RuleAsWritten ==
    fp.called =>
        \A q \in Range(fp.arg) :
            /\ SumOf(fp.ordered[1]) <= SumOf(q)
            /\ SumOf(fp.ordered[3]) >= SumOf(q)
            /\ fp.ordered[2][1] - fp.ordered[2][2] <= q[1] - q[2]
            /\ fp.ordered[4][1] - fp.ordered[4][2] >= q[1] - q[2]

\* C12 as amended: top-left minimizes x+y, bottom-right maximizes x+y,
\* top-right minimizes y-x (it maximizes x-y) and bottom-left maximizes y-x
\* (it minimizes x-y); each role is one of the input points.
C12_SumDifferenceRule ==
    fp.called =>
        /\ \A k \in 1..4 : fp.ordered[k] \in Range(fp.arg)
        /\ \A q \in Range(fp.arg) :
            /\ SumOf(fp.ordered[1]) <= SumOf(q)
            /\ SumOf(fp.ordered[3]) >= SumOf(q)
            /\ fp.ordered[2][2] - fp.ordered[2][1] <= q[2] - q[1]
            /\ fp.ordered[4][2] - fp.ordered[4][1] >= q[2] - q[1]

C12_Witness ==
    /\ entry = "fix_perspective"
    /\ pc = "done"
    /\ Cardinality(Range(fp.ordered)) = 4
    /\ \A q \in Range(fp.arg) \ {fp.ordered[2]} :
          fp.ordered[2][1] - fp.ordered[2][2] > q[1] - q[2]
    /\ \A q \in Range(fp.arg) \ {fp.ordered[4]} :
          fp.ordered[4][1] - fp.ordered[4][2] < q[1] - q[2]

\* C13: notifications are a side channel.  Whatever the notification calls do,
\* the image carried out of the Rectify stage is the one the stage outcomes
\* dictate (the rectified image when the Rectifier returned, img otherwise)
\* and no notification's exception leaves process_image.
C13_NotificationsAreSideChannel ==
    InProcessImage =>
        /\ raised # "StreamlitAPIException"
        /\ (pc \in {"clean", "return", "done"} =>
              corrected_image = IF RectifierSucceeded THEN fp.val ELSE img)

\* the contours of the frame that sorted() puts before contour i: the larger
\* ones and the earlier ones of the same area
Before(cs, i) ==
    {j \in 1..Len(cs) : cs[j].area > cs[i].area \/ (cs[j].area = cs[i].area /\ j < i)}

\* contour i is one of the 6 of largest area
Considered(cs, i) == Cardinality(Before(cs, i)) < 6

\* contour i encloses at least 10% of the frame, has a perimeter of at least
\* 100 pixels and simplifies to 4 vertices
Acceptable(cs, i, frame) ==
    /\ cs[i].area * 10 >= frame.shape[1] * frame.shape[2]
    /\ cs[i].peri >= 100
    /\ Len(cs[i].approx) = 4

\* C14: a find_document_corners call that returns has looked only at the 6
\* contours of largest area, in descending order of area: it returns the
\* corners of the first of them that is acceptable (10% of the frame,
\* perimeter 100, 4 vertices), and None exactly when none of them is; so a
\* contour below 10% of the frame never yields the corners.
C14_FirstAcceptableOfSixLargest ==
    (entry = "find_document_corners" /\ pc = "done") =>
        LET cs   == img.contours
            hits == {i \in 1..Len(cs) : Considered(cs, i) /\ Acceptable(cs, i, img)}
        IN  /\ (corners = <<>>) <=> (hits = {})
            /\ \A i \in hits :
                  (\A j \in hits : j = i \/ j \notin Before(cs, i)) =>
                      corners = cs[i].approx
            /\ corners # <<>> =>
                  \E i \in 1..Len(cs) :
                      /\ cs[i].approx = corners
                      /\ cs[i].area * 10 >= img.shape[1] * img.shape[2]

\* a frame of 7 contours whose 7th by area is acceptable and whose 6 larger
\* ones are not: the detector returns None
C14_Witness ==
    /\ entry = "find_document_corners" /\ pc = "done"
    /\ corners = <<>>
    /\ \E i \in 1..Len(img.contours) :
          /\ Acceptable(img.contours, i, img)
          /\ ~Considered(img.contours, i)

\* the label of the entry at position k, counted from 1
Label(image_list, k) == image_list[k][2]

\* the two session lists carry the same label at every index
SameLabels ==
    /\ Len(original_images) = Len(processed_images)
    /\ \A k \in 1..Len(processed_images) :
          Label(original_images, k) = Label(processed_images, k)

\* how often the entry e is in the list
Count(image_list, e) == Cardinality({k \in 1..Len(image_list) : image_list[k] = e})

\* C15: a Remove press on page i removes entry i of the processed-image list
\* and leaves the original-image list as it was.
C15_RemoveLeavesOriginals ==
    [][last'.kind = "remove" =>
          /\ processed_images' =
                 SubSeq(processed_images, 1, last'.i)
                     \o SubSeq(processed_images, last'.i + 2, Len(processed_images))
          /\ Len(processed_images') = Len(processed_images) - 1
          /\ original_images' = original_images]_vars

\* after a Remove press in a session of RGB uploads alone: the lists differ in
\* length and some position holds different labels in the two
C15_Witness ==
    /\ last.kind = "remove"
    /\ \A k \in 1..Len(original_images) : original_images[k][1].mode = "RGB"
    /\ Len(original_images) # Len(processed_images)
    /\ \E k \in 1..Len(processed_images) :
          Label(original_images, k) # Label(processed_images, k)

\* the laws of move_image_up and move_image_down on the list L at the index i,
\* counted from 0
MoveLaws(L, i) ==
    LET up   == move_image_up(L, i)
        down == move_image_down(L, i)
        n    == Len(L)
    IN  /\ up.exc = "none" /\ down.exc = "none"
        /\ Len(up.val) = n /\ Len(down.val) = n
        /\ \A e \in Range(L) \cup Range(up.val) \cup Range(down.val) :
              Count(up.val, e) = Count(L, e) /\ Count(down.val, e) = Count(L, e)
        /\ IF i > 0
           THEN /\ up.val[i + 1] = L[i] /\ up.val[i] = L[i + 1]
                /\ \A k \in 1..n : k \notin {i, i + 1} => up.val[k] = L[k]
                /\ move_image_down(up.val, i - 1).val = L
           ELSE up.val = L
        /\ IF i < n - 1
           THEN /\ down.val[i + 1] = L[i + 2] /\ down.val[i + 2] = L[i + 1]
                /\ \A k \in 1..n : k \notin {i + 1, i + 2} => down.val[k] = L[k]
           ELSE down.val = L

\* C16: on each session list and at each of its indices, move_image_up and
\* move_image_down are the adjacent swap (a no-op at the first resp. last
\* index) that keeps every other position, the length and the multiset of
\* entries, and move up at i followed by move down at i-1 restores the list;
\* a Move Up or Move Down press applies the same move to both lists, and
\* lists that carried the same labels before the press do so after it.
C16_MovesAreAdjacentSwaps ==
    /\ [](entry = "main" =>
            /\ \A i \in 0..(Len(original_images) - 1) : MoveLaws(original_images, i)
            /\ \A i \in 0..(Len(processed_images) - 1) : MoveLaws(processed_images, i))
    /\ [][(last'.kind = "up" =>
              /\ processed_images' = move_image_up(processed_images, last'.i).val
              /\ original_images' = move_image_up(original_images, last'.i).val)
          /\ (last'.kind = "down" =>
              /\ processed_images' = move_image_down(processed_images, last'.i).val
              /\ original_images' = move_image_down(original_images, last'.i).val)
          /\ (last'.kind \in {"up", "down"} /\ SameLabels => SameLabels')]_vars

\* a Move Up press on the middle one of three pages, the lists in step
C16_Witness ==
    /\ last = [kind |-> "up", i |-> 1]
    /\ Len(processed_images) = 3
    /\ SameLabels

\* C17: in a session of main.py the original-image list is at least as long
\* as the processed-image list, and no script run ends with the IndexError of
\* the review loop's original_images[i].
C17_OriginalsCoverProcessed ==
    entry = "main" =>
        /\ Len(original_images) >= Len(processed_images)
        /\ run_exc # "IndexError"

\* an upload whose process_image call raised, pages already on the list
C17_Witness ==
    /\ last.kind = "upload"
    /\ run_exc = "cv2.error"
    /\ processed_images # <<>>
    /\ Len(original_images) > Len(processed_images)

\* C18: the labels of the original-image list are pairwise distinct and no
\* name is handed to process_image more than once in a session; a name on the
\* original-image list was handed to it once.
C18_ProcessedAtMostOnce ==
    entry = "main" =>
        /\ \A j, k \in 1..Len(original_images) :
              Label(original_images, j) = Label(original_images, k) => j = k
        /\ \A n \in DOMAIN processing : processing[n] <= 1
        /\ \A n \in existing_names(original_images) : processing[n] = 1

\* after Clear All, with files still in the uploader: the rerun did not
\* process them again
C18_Witness ==
    /\ last.kind = "clear"
    /\ processed_images = <<>>
    /\ Len(uploaded_files) = 2
    /\ \A k \in 1..Len(uploaded_files) : processing[uploaded_files[k].name] = 1

\* C19: after a Clear All press the session is reset: both lists are empty
\* and no pdf_data is stored.
C19_ClearAllResets ==
    (entry = "main" /\ last.kind = "clear" /\ run_exc = "none") =>
        /\ processed_images = <<>>
        /\ original_images = <<>>
        /\ ~pdf_data.stored

====
